---- MODULE Spec2Model ----
(***************************************************************************)
(* A model of scarabee's nuclear data library, NDLibrary                   *)
(* (src/src/scarabee/_scarabee/nd_library.cpp), and of the tabulated       *)
(* Yamamoto-Tabuchi polar quadratures (src/src/yamamoto_tabuchi.cpp) a     *)
(* MOCDriver is built with.                                                *)
(*                                                                         *)
(* A double is modelled by an exact rational <<n, d>> in lowest terms with *)
(* d > 0; d = 0 marks the non-finite values of IEEE arithmetic:            *)
(* <<1,0>> = +inf, <<-1,0>> = -inf, <<0,0>> = NaN.  Rounding is not        *)
(* modelled, signed zeros are not modelled.                                *)
(***************************************************************************)
EXTENDS Integers, Sequences, FiniteSets, TLC

VARIABLES h5_, nuclide_handles_, polar_quad_, pc, call, ret, touched,
          angle_info_, tracks_, geometry_, x_min_bc_, x_max_bc_, y_min_bc_, y_max_bc_

\* The members of the MOCDriver other than its polar quadrature.
moc_vars == <<angle_info_, tracks_, geometry_, x_min_bc_, x_max_bc_, y_min_bc_, y_max_bc_>>

vars == <<h5_, nuclide_handles_, polar_quad_, pc, call, ret, touched, moc_vars>>

(***************************************************************************)
(* Arithmetic on doubles.                                                  *)
(***************************************************************************)
Abs(n) == IF n < 0 THEN -n ELSE n

Sgn(n) == IF n < 0 THEN -1 ELSE IF n > 0 THEN 1 ELSE 0

RECURSIVE GCD(_, _)
GCD(a, b) == IF b = 0 THEN a ELSE GCD(b, a % b)

Norm(n, d) ==
    IF d = 0 THEN <<Sgn(n), 0>>
    ELSE LET s == IF d < 0 THEN -1 ELSE 1
             g == GCD(Abs(n), Abs(d))
         IN  <<(s * n) \div g, Abs(d) \div g>>

Rat(n) == <<n, 1>>

NaN == <<0, 0>>

PInf == <<1, 0>>

IsFinite(x) == x[2] > 0

IsNaN(x) == x = NaN

RNeg(x) == <<-x[1], x[2]>>

RAdd(x, y) ==
    IF IsFinite(x) /\ IsFinite(y)
    THEN LET g == GCD(x[2], y[2])
         IN  Norm(x[1] * (y[2] \div g) + y[1] * (x[2] \div g), (x[2] \div g) * y[2])
    ELSE IF IsNaN(x) \/ IsNaN(y) THEN NaN
    ELSE IF IsFinite(x) THEN y
    ELSE IF IsFinite(y) THEN x
    ELSE IF x = y THEN x ELSE NaN

RSub(x, y) == RAdd(x, RNeg(y))

RMul(x, y) ==
    IF IsFinite(x) /\ IsFinite(y)
    THEN LET g1 == GCD(Abs(x[1]), y[2])
             g2 == GCD(Abs(y[1]), x[2])
         IN  IF x[1] = 0 \/ y[1] = 0 THEN <<0, 1>>
             ELSE <<(x[1] \div g1) * (y[1] \div g2), (x[2] \div g2) * (y[2] \div g1)>>
    ELSE IF IsNaN(x) \/ IsNaN(y) \/ x[1] = 0 \/ y[1] = 0 THEN NaN
    ELSE <<Sgn(x[1]) * Sgn(y[1]), 0>>

RInv(x) ==
    IF IsNaN(x) THEN NaN
    ELSE IF ~IsFinite(x) THEN <<0, 1>>
    ELSE IF x[1] = 0 THEN PInf
    ELSE <<Sgn(x[1]) * x[2], Abs(x[1])>>

RDiv(x, y) == RMul(x, RInv(y))

\* x < y as the comparison of doubles: false when either side is NaN.
RLt(x, y) ==
    IF IsNaN(x) \/ IsNaN(y) THEN FALSE
    ELSE IF IsFinite(x) /\ IsFinite(y)
    THEN LET g == GCD(x[2], y[2])
         IN  x[1] * (y[2] \div g) < y[1] * (x[2] \div g)
    ELSE (IF IsFinite(x) THEN 0 ELSE x[1]) < (IF IsFinite(y) THEN 0 ELSE y[1])

RLe(x, y) == ~IsNaN(x) /\ ~IsNaN(y) /\ (x = y \/ RLt(x, y))

RGt(x, y) == RLt(y, x)

RGe(x, y) == RLe(y, x)

Zero == Rat(0)

One == Rat(1)

Half == Norm(1, 2)

RMin(x, y) == IF RLt(y, x) THEN y ELSE x

RECURSIVE RSum(_, _)
\* The sum f[1] + ... + f[n], accumulated in index order.
RSum(f, n) == IF n = 0 THEN Zero ELSE RAdd(RSum(f, n - 1), f[n])

RECURSIVE ISqrtR(_, _)
ISqrtR(n, r) == IF r * r <= n THEN r ELSE ISqrtR(n, (r + n \div r) \div 2)

\* The integer part of the square root of n >= 0.
ISqrt(n) == IF n = 0 THEN 0 ELSE ISqrtR(n, IF n > 40000 THEN 40000 ELSE n)

\* Decimal digits std::sqrt is carried to: SqrtScale = 10 keeps one digit.
SqrtScale == 10

\* std::sqrt, truncated to 1/SqrtScale; exact on squares of such decimals.
Sqrt(x) ==
    IF IsNaN(x) \/ x[1] < 0 THEN NaN
    ELSE IF ~IsFinite(x) THEN PInf
    ELSE Norm(ISqrt(x[1] * x[2] * SqrtScale * SqrtScale), x[2] * SqrtScale)

(***************************************************************************)
(* The nuclear data files.  A file holds the root attribute ngroups and    *)
(* one group per nuclide: the attributes temperatures, dilutions,          *)
(* potential-xs, fissile, resonant and the datasets absorption [T,D,G],    *)
(* scatter and p1-scatter [T,D,G,G], and, when fissile, fission [T,D,G],   *)
(* nu and chi [T,G].  Indices start at 1 here and at 0 in the code.        *)
(***************************************************************************)
ngroups == 2

Groups == 1..ngroups

\* The literal 1.E10 of ring_two_term_xs, the dilution that stands for
\* "infinite": a value above every finite dilution of the files and every
\* background the requests reach.
InfDil == 10000

nullptr == <<>>

\* Integer tables as tables of doubles.
R1(v) == [g \in DOMAIN v |-> Rat(v[g])]

R2(m) == [i \in DOMAIN m |-> R1(m[i])]

R3(a) == [i \in DOMAIN a |-> R2(a[i])]

R4(a) == [i \in DOMAIN a |-> R3(a[i])]

\* Scattering tables [T,D,G,G] of the files, built from a kernel.
ScatterOf(nT, nD, base) ==
    [t \in 1..nT |-> [d \in 1..nD |-> [g \in Groups |-> [go \in Groups |->
        Rat(base[g][go] + (IF g = go THEN t + d * d ELSE d - 1))]]]]

P1ScatterOf(nT, nD) ==
    [t \in 1..nT |-> [d \in 1..nD |-> [g \in Groups |-> [go \in Groups |->
        Rat(IF g = go THEN d + (IF t = nT THEN 1 ELSE 0) ELSE (IF d = nD THEN 1 ELSE 0))]]]]

RECURSIVE Decades(_)
\* The number of decades in a dilution v >= 1.
Decades(v) == IF v < 10 THEN 0 ELSE 1 + Decades(v \div 10)

\* Absorption-like tables [T,D,G] of the scenario file: the value is a
\* function of the temperature, the dilution (not of its place) and the group.
ScenXsOf(dils, k) ==
    [t \in 1..3 |-> [d \in DOMAIN dils |-> [g \in Groups |->
        Rat(k * g + t + Decades(dils[d]))]]]

U235 ==
    [ name         |-> "U235",
      temperatures |-> R1(<<100, 400, 900>>),
      dilutions    |-> R1(<<1, 3, 7>>),
      potential_xs |-> Rat(2),
      fissile      |-> TRUE,
      resonant     |-> TRUE,
      absorption   |-> R3(<< << <<4, 2>>, <<6, 3>>, <<9, 5>> >>,
                            << <<5, 2>>, <<8, 4>>, <<12, 6>> >>,
                            << <<6, 3>>, <<10, 5>>, <<16, 8>> >> >>),
      scatter      |-> ScatterOf(3, 3, << <<5, 2>>, <<1, 6>> >>),
      p1_scatter   |-> P1ScatterOf(3, 3),
      fission      |-> R3(<< << <<2, 1>>, <<3, 2>>, <<5, 3>> >>,
                            << <<3, 1>>, <<4, 2>>, <<7, 4>> >>,
                            << <<3, 2>>, <<6, 3>>, <<9, 5>> >> >>),
      nu           |-> R2(<< <<2, 3>>, <<2, 3>>, <<3, 2>> >>),
      chi          |-> << <<Rat(1), Rat(0)>>,
                          <<Norm(3, 4), Norm(1, 4)>>,
                          <<Norm(1, 2), Norm(1, 2)>> >> ]

H1 ==
    [ name         |-> "H1",
      temperatures |-> R1(<<100, 400>>),
      dilutions    |-> R1(<<2, 6>>),
      potential_xs |-> Rat(3),
      fissile      |-> FALSE,
      resonant     |-> FALSE,
      absorption   |-> R3(<< << <<1, 2>>, <<1, 3>> >>,
                            << <<2, 2>>, <<3, 5>> >> >>),
      scatter      |-> ScatterOf(2, 2, << <<3, 4>>, <<0, 7>> >>),
      p1_scatter   |-> P1ScatterOf(2, 2),
      fission      |-> nullptr,
      nu           |-> nullptr,
      chi          |-> nullptr ]

\* The nuclide of scenario 4 of the specification: temperatures
\* (300, 600, 900) K and the dilutions 1, 10, 100, 1000, 1e10 barns, stored
\* in the order given.
ScenNuclide(name, dils) ==
    [ name         |-> name,
      temperatures |-> R1(<<300, 600, 900>>),
      dilutions    |-> R1(dils),
      potential_xs |-> Rat(2),
      fissile      |-> FALSE,
      resonant     |-> TRUE,
      absorption   |-> ScenXsOf(dils, 1),
      scatter      |-> [t \in 1..3 |-> [d \in DOMAIN dils |-> [g \in Groups |->
                           [go \in Groups |-> ScenXsOf(dils, 2)[t][d][g]]]]],
      p1_scatter   |-> [t \in 1..3 |-> [d \in DOMAIN dils |-> [g \in Groups |->
                           [go \in Groups |-> Rat(IF g = go THEN t ELSE 0)]]]],
      fission      |-> nullptr,
      nu           |-> nullptr,
      chi          |-> nullptr ]

DilsIncreasing == <<1, 10, 100, 1000, InfDil>>

DilsDecreasing == <<InfDil, 1000, 100, 10, 1>>

\* A fissile nuclide with nT temperatures and nD dilutions, from 300 K and
\* 5 barns on: a nuclide given at one temperature only, or with data that do
\* not depend on the dilution, has a table of one entry.
SmallNuclide(name, nT, nD) ==
    [ name         |-> name,
      temperatures |-> [t \in 1..nT |-> Rat(300 * t)],
      dilutions    |-> [d \in 1..nD |-> Rat(5 * d)],
      potential_xs |-> Rat(2),
      fissile      |-> TRUE,
      resonant     |-> FALSE,
      absorption   |-> [t \in 1..nT |-> [d \in 1..nD |-> [g \in Groups |-> Rat(t + 2 * d + g)]]],
      scatter      |-> ScatterOf(nT, nD, << <<5, 2>>, <<1, 6>> >>),
      p1_scatter   |-> P1ScatterOf(nT, nD),
      fission      |-> [t \in 1..nT |-> [d \in 1..nD |-> [g \in Groups |-> Rat(t + d)]]],
      nu           |-> [t \in 1..nT |-> [g \in Groups |-> Rat(2)]],
      chi          |-> [t \in 1..nT |-> <<Norm(t, t + 1), Norm(1, t + 1)>>] ]

\* A fissile nuclide whose data do not depend on the dilution, tabulated at
\* 100 K and 400 K for the dilutions given.
FlatNuclide(name, dils) ==
    [ name         |-> name,
      temperatures |-> R1(<<100, 400>>),
      dilutions    |-> R1(dils),
      potential_xs |-> Rat(2),
      fissile      |-> TRUE,
      resonant     |-> FALSE,
      absorption   |-> [t \in 1..2 |-> [d \in DOMAIN dils |-> [g \in Groups |-> Rat(t + 2 * g)]]],
      scatter      |-> [t \in 1..2 |-> [d \in DOMAIN dils |-> [g \in Groups |->
                           [go \in Groups |-> Rat(IF g = go THEN 5 + t ELSE g)]]]],
      p1_scatter   |-> [t \in 1..2 |-> [d \in DOMAIN dils |-> [g \in Groups |->
                           [go \in Groups |-> Rat(IF g = go THEN t ELSE 0)]]]],
      fission      |-> [t \in 1..2 |-> [d \in DOMAIN dils |-> [g \in Groups |-> Rat(t + g)]]],
      nu           |-> R2(<< <<2, 3>>, <<3, 2>> >>),
      chi          |-> << <<Norm(3, 4), Norm(1, 4)>>, <<Norm(1, 2), Norm(1, 2)>> >> ]

MainFile == "main.h5"

ScenarioFile == "scenario4.h5"

SingleFile == "single.h5"

FlatFile == "flat.h5"

\* The groups of a file, by nuclide name.
H5Groups(file) ==
    IF file = MainFile
    THEN [n \in {"U235", "H1"} |-> IF n = "U235" THEN U235 ELSE H1]
    ELSE IF file = SingleFile
    THEN [n \in {"T1D1", "T1D2", "T2D1"} |->
            IF n = "T1D1" THEN SmallNuclide(n, 1, 1)
            ELSE IF n = "T1D2" THEN SmallNuclide(n, 1, 2)
            ELSE SmallNuclide(n, 2, 1)]
    ELSE IF file = FlatFile
    THEN [n \in {"O16", "Zr90"} |->
            IF n = "O16" THEN FlatNuclide(n, <<InfDil>>) ELSE FlatNuclide(n, <<1, 100>>)]
    ELSE [n \in {"Xinc", "Xdec"} |->
            IF n = "Xinc" THEN ScenNuclide("Xinc", DilsIncreasing)
            ELSE ScenNuclide("Xdec", DilsDecreasing)]

(***************************************************************************)
(* NuclideHandle and CrossSection.                                         *)
(***************************************************************************)
\* NuclideHandle::loaded(): the tabulated arrays are held.
loaded(nuc) == nuc.absorption # nullptr

\* A handle as the constructor of NDLibrary leaves it: the attributes read,
\* no array allocated.
NewHandle(grp) ==
    [name |-> grp.name, temperatures |-> grp.temperatures, dilutions |-> grp.dilutions,
     potential_xs |-> grp.potential_xs, fissile |-> grp.fissile, resonant |-> grp.resonant,
     absorption |-> nullptr, scatter |-> nullptr, p1_scatter |-> nullptr,
     fission |-> nullptr, nu |-> nullptr, chi |-> nullptr, reads |-> 0]

\* NuclideHandle::load_xs_from_hdf5: nothing when loaded, otherwise the
\* datasets of the nuclide's group are read into freshly allocated arrays.
load_xs_from_hdf5(nuc, grp) ==
    IF loaded(nuc) THEN nuc
    ELSE [nuc EXCEPT !.reads = @ + 1,
                     !.absorption = grp.absorption,
                     !.scatter = grp.scatter,
                     !.p1_scatter = grp.p1_scatter,
                     !.fission = IF nuc.fissile THEN grp.fission ELSE nullptr,
                     !.nu = IF nuc.fissile THEN grp.nu ELSE nullptr,
                     !.chi = IF nuc.fissile THEN grp.chi ELSE nullptr]

\* An unload that frees every array but the absorption.
unload_handle_keeps_absorption(nuc) ==
    [nuc EXCEPT !.scatter = nullptr, !.p1_scatter = nullptr,
                !.fission = nullptr, !.chi = nullptr, !.nu = nullptr, !.reads = 0]

\* NuclideHandle::unload.
unload_handle(nuc) ==
    [nuc EXCEPT !.absorption = nullptr, !.scatter = nullptr, !.p1_scatter = nullptr,
                !.fission = nullptr, !.chi = nullptr, !.nu = nullptr, !.reads = 0]

ZeroVec == [g \in Groups |-> Zero]

ZeroMat == [g \in Groups |-> ZeroVec]

\* CrossSection(Et, Ea, Es, Ef, vEf, chi): no p1 scattering matrix is given,
\* and Es1(g, g') then reads as zero.
CrossSection6(Et, Ea, Es, Ef, vEf, chi) ==
    [Et |-> Et, Ea |-> Ea, Es |-> Es, Es1 |-> ZeroMat, Ef |-> Ef, vEf |-> vEf, chi |-> chi]

\* CrossSection(Et, Ea, Es, Es1, Ef, vEf, chi).
CrossSection7(Et, Ea, Es, Es1, Ef, vEf, chi) ==
    [Et |-> Et, Ea |-> Ea, Es |-> Es, Es1 |-> Es1, Ef |-> Ef, vEf |-> vEf, chi |-> chi]

(***************************************************************************)
(* Interpolation.  Indices i, it, id are the code's, from 0; At reads an   *)
(* array at such an index.                                                 *)
(***************************************************************************)
At(arr, k) == arr[k + 1]

\* An array built element by element: the elements are computed once, when
\* the array is made.
Array(f) == f \o <<>>

Size(arr) == Len(arr)

\* The closing clamp of get_temp_interp_params and get_dil_interp_params.
Clamp01(f) == IF RLt(f, Zero) THEN Zero ELSE IF RGt(f, One) THEN One ELSE f

\* The first i of the loop 0 <= i < size - 1 with grid[i] <= x <= grid[i+1];
\* size - 1, where the loop ends, when there is none.
FirstBracket(x, grid) ==
    LET hits == {k \in 0..(Size(grid) - 2) : RGe(x, At(grid, k)) /\ RLe(x, At(grid, k + 1))}
    IN  IF hits = {} THEN Size(grid) - 1
        ELSE CHOOSE k \in hits : \A j \in hits : k <= j

\* The interpolation factor in temperature: linear in the square root.
TempFactor(temp, T_i, T_i1) ==
    RDiv(RSub(Sqrt(temp), Sqrt(T_i)), RSub(Sqrt(T_i1), Sqrt(T_i)))

\* The interpolation factor in dilution: linear.
DilFactor(dil, d_i, d_i1) == RDiv(RSub(dil, d_i), RSub(d_i1, d_i))

\* An index is a std::size_t, held here by the integer nearest to zero that
\* is congruent to it modulo 2^64: size() - 2 of a table of one entry is
\* -1, which stands for 2^64 - 1, and the index after it is 0.
\* NDLibrary::get_temp_interp_params, called with i = 0 and f = 0.
get_temp_interp_params(temp, nuc) ==
    LET T == nuc.temperatures
        k == FirstBracket(temp, T)
    IN  IF RLe(temp, At(T, 0)) THEN [i |-> 0, f |-> Zero]
        ELSE IF RGe(temp, At(T, Size(T) - 1)) THEN [i |-> Size(T) - 2, f |-> One]
        ELSE IF k = Size(T) - 1 THEN [i |-> k, f |-> Zero]
        ELSE [i |-> k, f |-> Clamp01(TempFactor(temp, At(T, k), At(T, k + 1)))]

\* NDLibrary::get_dil_interp_params, called with i = 0 and f = 0.
get_dil_interp_params(dil, nuc) ==
    LET D == nuc.dilutions
        k == FirstBracket(dil, D)
    IN  IF RLe(dil, At(D, 0)) THEN [i |-> 0, f |-> Zero]
        ELSE IF RGe(dil, At(D, Size(D) - 1)) THEN [i |-> Size(D) - 2, f |-> One]
        ELSE IF k = Size(D) - 1 THEN [i |-> k, f |-> Zero]
        ELSE [i |-> k, f |-> Clamp01(DilFactor(dil, At(D, k), At(D, k + 1)))]

\* The midpoint of a and b, whatever f is.
Lerp_midpoint(f, a, b) == RMul(Half, RAdd(a, b))

\* (1 - f) * a + f * b.
Lerp(f, a, b) == RAdd(RMul(RSub(One, f), a), RMul(f, b))

\* One element of interp_1d / interp_2d over [T,D,...]: c is the table of
\* that element by temperature and dilution.
Bilinear(c, it, f_temp, id, f_dil) ==
    LET e(t, d) == At(At(c, t), d)
    IN  IF RGt(f_temp, Zero)
        THEN IF RGt(f_dil, Zero)
             THEN RAdd(RMul(RSub(One, f_temp), Lerp(f_dil, e(it, id), e(it, id + 1))),
                       RMul(f_temp, Lerp(f_dil, e(it + 1, id), e(it + 1, id + 1))))
             ELSE Lerp(f_temp, e(it, id), e(it + 1, id))
        ELSE IF RGt(f_dil, Zero)
             THEN Lerp(f_dil, e(it, id), e(it, id + 1))
             ELSE e(it, id)

\* The indices interp_1d and interp_2d read along an axis with the
\* parameters p = (i, f): i, and i + 1 when f > 0.
IndicesRead(p) == IF RGt(p.f, Zero) THEN {p.i, p.i + 1} ELSE {p.i}

\* The indices read along both axes are elements of the tables of nuc.
reads_in_bounds(nuc, tp, dp) ==
    /\ IndicesRead(tp) \subseteq 0..(Size(nuc.temperatures) - 1)
    /\ IndicesRead(dp) \subseteq 0..(Size(nuc.dilutions) - 1)

\* interp_1d over a [T,G] array (nu, chi).
interp_1d_T(nE, it, f_temp) ==
    Array([g \in Groups |->
        IF RGt(f_temp, Zero) THEN Lerp(f_temp, At(nE, it)[g], At(nE, it + 1)[g])
        ELSE At(nE, it)[g]])

\* interp_1d over a [T,D,G] array (absorption, fission).
interp_1d(nE, it, f_temp, id, f_dil) ==
    Array([g \in Groups |->
        Bilinear([t \in DOMAIN nE |-> [d \in DOMAIN nE[t] |-> nE[t][d][g]]],
                 it, f_temp, id, f_dil)])

\* interp_2d over a [T,D,G,G] array (scatter, p1-scatter).
interp_2d(nE, it, f_temp, id, f_dil) ==
    Array([g \in Groups |-> Array([go \in Groups |->
        Bilinear([t \in DOMAIN nE |-> [d \in DOMAIN nE[t] |-> nE[t][d][g][go]]],
                 it, f_temp, id, f_dil)])])

\* A total that keeps the p1 term: Ea(g) plus the whole row of Es.
ReconstructEt_keep_p1(Ea, Es, Es1) ==
    Array([g \in Groups |-> RAdd(Ea[g], RSum(Es[g], ngroups))])

\* "Reconstruct total, removing p1": Et(g) of interp_xs.
ReconstructEt(Ea, Es, Es1) ==
    Array([g \in Groups |-> RSub(RAdd(Ea[g], RSum(Es[g], ngroups)), Es1[g][g])])

\* A scattering matrix with the p1 term taken out of the diagonal twice.
RemoveP1_twice(Es, Es1) ==
    Array([g \in Groups |-> Array([go \in Groups |->
        IF go = g THEN RSub(RSub(Es[g][g], Es1[g][g]), Es1[g][g]) ELSE Es[g][go]])])

\* The scattering matrix interp_xs returns: Es(g, g) -= Es1(g, g).
RemoveP1(Es, Es1) ==
    Array([g \in Groups |-> Array([go \in Groups |->
        IF go = g THEN RSub(Es[g][g], Es1[g][g]) ELSE Es[g][go]])])

VecMul(a, b) == Array([g \in Groups |-> RMul(a[g], b[g])])

\* The CrossSection interp_xs makes of the interpolated arrays: the total
\* reconstructed, p1 removed from the in-group scattering, vEf = nu * Ef.
interp_xs_result(Ea, Es, Es1, Ef, nu, chi) ==
    CrossSection6(ReconstructEt(Ea, Es, Es1), Ea, RemoveP1(Es, Es1), Ef,
                  VecMul(nu, Ef), chi)

\* The body of NDLibrary::interp_xs once the parameters (it, f_temp) and
\* (id, f_dil) are known: the interpolations and the CrossSection returned.
interp_xs_at(nuc, it, f_temp, id, f_dil) ==
    interp_xs_result(
        interp_1d(nuc.absorption, it, f_temp, id, f_dil),
        interp_2d(nuc.scatter, it, f_temp, id, f_dil),
        interp_2d(nuc.p1_scatter, it, f_temp, id, f_dil),
        IF nuc.fissile THEN interp_1d(nuc.fission, it, f_temp, id, f_dil) ELSE ZeroVec,
        IF nuc.fissile THEN interp_1d_T(nuc.nu, it, f_temp) ELSE ZeroVec,
        IF nuc.fissile THEN interp_1d_T(nuc.chi, it, f_temp) ELSE ZeroVec)

\* interp_xs with the parameters tp = (i, f) in temperature and dp in dilution.
interp_xs_with(nuc, tp, dp) == interp_xs_at(nuc, tp.i, tp.f, dp.i, dp.f)

\* NDLibrary::interp_xs past the lookup and the load: nuc is the loaded handle.
interp_xs_value(nuc, temp, dil) ==
    interp_xs_with(nuc, get_temp_interp_params(temp, nuc), get_dil_interp_params(dil, nuc))

(***************************************************************************)
(* Two-term rational self shielding.                                       *)
(***************************************************************************)
\* The narrow-resonance flux (pot_xs + bg_xs) / (Ea + pot_xs + bg_xs).
nr_flux(pot_xs, bg_xs, Ea_g) ==
    RDiv(RAdd(pot_xs, bg_xs), RAdd(RAdd(Ea_g, pot_xs), bg_xs))

\* A weighting factor left unnormalised: b * flux.
weight_unnormalised(b, flux, b1, flux_1, b2, flux_2) == RMul(b, flux)

\* A weighting factor that takes the size of b and drops its sign.
weight_unsigned(b, flux, b1, flux_1, b2, flux_2) ==
    RDiv(RMul(Norm(Abs(b[1]), b[2]), flux), RAdd(RMul(b1, flux_1), RMul(b2, flux_2)))

\* The weighting factor b * flux / (b1 * flux_1 + b2 * flux_2).
weight(b, flux, b1, flux_1, b2, flux_2) ==
    RDiv(RMul(b, flux), RAdd(RMul(b1, flux_1), RMul(b2, flux_2)))

\* f1 * x1 + f2 * x2.
Mix(f1, x1, f2, x2) == RAdd(RMul(f1, x1), RMul(f2, x2))

\* chi(g) before the normalisation:
\* (vEf_sum_1 * chi_1(g) + vEf_sum_2 * chi_2(g)) / (vEf_sum_1 + vEf_sum_2).
two_term_chi_raw(vEf_sum_1, vEf_sum_2, chi_1, chi_2) ==
    Array([g \in Groups |->
        RDiv(RAdd(RMul(vEf_sum_1, chi_1[g]), RMul(vEf_sum_2, chi_2[g])),
             RAdd(vEf_sum_1, vEf_sum_2))])

\* if (chi_sum > 0.) chi /= chi_sum.
normalise_chi(chi, chi_sum) ==
    IF RGt(chi_sum, Zero) THEN Array([g \in Groups |-> RDiv(chi[g], chi_sum)]) ELSE chi

\* The fission spectrum of two_term_xs from the two production sums: left
\* at zero unless vEf_sum_1 + vEf_sum_2 > 0.
two_term_chi(vEf_sum_1, vEf_sum_2, chi_1, chi_2) ==
    IF RGt(RAdd(vEf_sum_1, vEf_sum_2), Zero)
    THEN normalise_chi(two_term_chi_raw(vEf_sum_1, vEf_sum_2, chi_1, chi_2),
                       RSum(two_term_chi_raw(vEf_sum_1, vEf_sum_2, chi_1, chi_2), ngroups))
    ELSE ZeroVec

\* The end of two_term_xs: the total, the production and chi from the
\* weighted arrays, and the CrossSection returned.
two_term_result(Ea, Es, Es1, Ef, vEf1, vEf2, chi_1, chi_2) ==
    CrossSection7(Array([g \in Groups |-> RAdd(Ea[g], RSum(Es[g], ngroups))]),
                  Ea, Es, Es1, Ef,
                  Array([g \in Groups |-> RAdd(vEf1[g], vEf2[g])]),
                  two_term_chi(RSum(vEf1, ngroups), RSum(vEf2, ngroups), chi_1, chi_2))

\* The loop over the groups of two_term_xs with the weights f1, f2 known.
two_term_weighted(xs_1, xs_2, f1, f2) ==
    two_term_result(
        Array([g \in Groups |-> Mix(f1[g], xs_1.Ea[g], f2[g], xs_2.Ea[g])]),
        Array([g \in Groups |-> Array([go \in Groups |->
            Mix(f1[g], xs_1.Es[g][go], f2[g], xs_2.Es[g][go])])]),
        Array([g \in Groups |-> Array([go \in Groups |->
            Mix(f1[g], xs_1.Es1[g][go], f2[g], xs_2.Es1[g][go])])]),
        Array([g \in Groups |-> Mix(f1[g], xs_1.Ef[g], f2[g], xs_2.Ef[g])]),
        Array([g \in Groups |-> RMul(f1[g], xs_1.vEf[g])]),
        Array([g \in Groups |-> RMul(f2[g], xs_2.vEf[g])]),
        xs_1.chi, xs_2.chi)

\* two_term_xs with the two cross section sets and the two fluxes known.
two_term_fluxes(xs_1, xs_2, flux_1, flux_2, b1, b2) ==
    two_term_weighted(xs_1, xs_2,
        Array([g \in Groups |-> weight(b1, flux_1[g], b1, flux_1[g], b2, flux_2[g])]),
        Array([g \in Groups |-> weight(b2, flux_2[g], b1, flux_1[g], b2, flux_2[g])]))

\* two_term_xs with the two cross section sets known.
two_term_sets(xs_1, xs_2, pot_xs, b1, b2, bg_xs_1, bg_xs_2) ==
    two_term_fluxes(xs_1, xs_2,
        Array([g \in Groups |-> nr_flux(pot_xs, bg_xs_1, xs_1.Ea[g])]),
        Array([g \in Groups |-> nr_flux(pot_xs, bg_xs_2, xs_2.Ea[g])]),
        b1, b2)

\* NDLibrary::two_term_xs past the lookup and the load.
two_term_xs_value(nuc, temp, b1, b2, bg_xs_1, bg_xs_2) ==
    two_term_sets(interp_xs_value(nuc, temp, bg_xs_1), interp_xs_value(nuc, temp, bg_xs_2),
                  nuc.potential_xs, b1, b2, bg_xs_1, bg_xs_2)

(***************************************************************************)
(* The four-lump ring model.                                               *)
(***************************************************************************)
\* PI of utils/constants.hpp, as the rational 22/7.
PI == Norm(22, 7)

\* std::asin to the precision of PI: asin(1) = PI/2, asin(3/5) = 0.651 and
\* asin(4/5) = 0.920 (they add up to PI/2), and the leading terms of the
\* series elsewhere.
Asin(p) ==
    IF p = Zero THEN Zero
    ELSE IF p = One THEN RMul(Half, PI)
    ELSE IF p = Norm(3, 5) THEN Norm(114, 175)
    ELSE IF p = Norm(4, 5) THEN Norm(161, 175)
    ELSE RAdd(p, RDiv(RMul(p, RMul(p, p)), Rat(6)))

\* The term T2 of eta_lm.
eta_lm_T2(p, Rin) == IF RGt(Rin, Zero) THEN RDiv(Asin(p), p) ELSE One

\* The mean chord length lm of eta_lm from p and theta.
eta_lm_lm(p, theta, Rfuel, Rin) ==
    RMul(RDiv(RMul(Rat(2), Rfuel), PI),
         RAdd(RAdd(Sqrt(RSub(One, RMul(p, p))), eta_lm_T2(p, Rin)), theta))

\* The pair (eta, lm) eta_lm returns, from p, lm and l.
eta_lm_pair(m, p, lm, l) ==
    [eta |-> IF m = 2 \/ m = 3 THEN RNeg(RDiv(RMul(p, lm), l)) ELSE RDiv(RMul(p, lm), l),
     lm  |-> lm]

\* eta_lm with p known.
eta_lm_p(m, p, Rfuel, Rin, Rout) ==
    eta_lm_pair(m, p,
        eta_lm_lm(p, IF m = 2 \/ m = 4 THEN RNeg(RMul(RMul(Half, PI), p))
                     ELSE RMul(RMul(Half, PI), p), Rfuel, Rin),
        RDiv(RMul(Rat(2), RSub(RMul(Rout, Rout), RMul(Rin, Rin))), Rfuel))

\* NDLibrary::eta_lm for 1 <= m <= 4: the pair (eta, lm).
eta_lm(m, Rfuel, Rin, Rout) ==
    eta_lm_p(m, IF m = 3 \/ m = 4 THEN RDiv(Rin, Rfuel) ELSE RMin(RDiv(Rout, Rfuel), One),
             Rfuel, Rin, Rout)

Lumps == 1..4

\* The background cross section of a lump for the coefficient a.
lump_bg_xs(l_m, a, mat_pot_xs, macro_pot_xs, N) ==
    IF RGt(l_m, Zero)
    THEN RDiv(RAdd(RSub(mat_pot_xs, macro_pot_xs), RDiv(a, l_m)), N)
    ELSE Rat(InfDil)

\* What one lump adds to a component: eta_m * (b1 * x1 + b2 * x2).
lump_term(eta_m, b1, x1, b2, x2) == RMul(eta_m, RAdd(RMul(b1, x1), RMul(b2, x2)))

\* The fission spectrum ring_two_term_xs keeps: that of xs_1 of lump 1.
ring_chi(lump) == lump[1].xs_1.chi

\* A lump with its two cross section sets known: the fluxes are added.
lump_sets(eta, xs_1, xs_2, pot_xs, bg_xs_1, bg_xs_2) ==
    [eta |-> eta, xs_1 |-> xs_1, xs_2 |-> xs_2,
     flux_1 |-> Array([g \in Groups |-> nr_flux(pot_xs, bg_xs_1, xs_1.Ea[g])]),
     flux_2 |-> Array([g \in Groups |-> nr_flux(pot_xs, bg_xs_2, xs_2.Ea[g])])]

\* A lump with its two backgrounds known.
lump_bg(nuc, temp, eta, bg_xs_1, bg_xs_2) ==
    lump_sets(eta, interp_xs_value(nuc, temp, bg_xs_1), interp_xs_value(nuc, temp, bg_xs_2),
              nuc.potential_xs, bg_xs_1, bg_xs_2)

\* A lump with (eta, lm) known.
lump_el(nuc, temp, a1, a2, mat_pot_xs, N, el) ==
    lump_bg(nuc, temp, el.eta,
            lump_bg_xs(el.lm, a1, mat_pot_xs, RMul(N, nuc.potential_xs), N),
            lump_bg_xs(el.lm, a2, mat_pot_xs, RMul(N, nuc.potential_xs), N))

\* The end of ring_two_term_xs: the total from Ea and Es, and the
\* CrossSection returned.
ring_result(Ea, Es, Es1, Ef, vEf, chi) ==
    CrossSection7(Array([g \in Groups |-> RAdd(Ea[g], RSum(Es[g], ngroups))]),
                  Ea, Es, Es1, Ef, vEf, chi)

\* The normalisation of ring_two_term_xs: each sum over the lumps times the
\* inverse of the sum of the fluxes.
ring_normalise(lump, b1, b2, invs_denom) ==
    ring_result(
        Array([g \in Groups |-> RMul(RSum(Array([m \in Lumps |->
            lump_term(lump[m].eta, b1, lump[m].xs_1.Ea[g], b2, lump[m].xs_2.Ea[g])]), 4),
            invs_denom[g])]),
        Array([g \in Groups |-> Array([go \in Groups |-> RMul(RSum(Array([m \in Lumps |->
            lump_term(lump[m].eta, b1, lump[m].xs_1.Es[g][go], b2, lump[m].xs_2.Es[g][go])]), 4),
            invs_denom[g])])]),
        Array([g \in Groups |-> Array([go \in Groups |-> RMul(RSum(Array([m \in Lumps |->
            lump_term(lump[m].eta, b1, lump[m].xs_1.Es1[g][go], b2, lump[m].xs_2.Es1[g][go])]), 4),
            invs_denom[g])])]),
        Array([g \in Groups |-> RMul(RSum(Array([m \in Lumps |->
            lump_term(lump[m].eta, b1, lump[m].xs_1.Ef[g], b2, lump[m].xs_2.Ef[g])]), 4),
            invs_denom[g])]),
        Array([g \in Groups |-> RMul(RSum(Array([m \in Lumps |->
            lump_term(lump[m].eta, b1, lump[m].xs_1.vEf[g], b2, lump[m].xs_2.vEf[g])]), 4),
            invs_denom[g])]),
        ring_chi(lump))

\* ring_two_term_xs with the four lumps known.
ring_lumps(lump, b1, b2) ==
    ring_normalise(lump, b1, b2,
        Array([g \in Groups |-> RDiv(One, RSum(Array([m \in Lumps |->
            lump_term(lump[m].eta, b1, lump[m].flux_1[g], b2, lump[m].flux_2[g])]), 4))]))

\* NDLibrary::ring_two_term_xs past the checks of the radii, the lookup and
\* the load.
ring_two_term_xs_value(nuc, temp, a1, a2, b1, b2, mat_pot_xs, N, Rfuel, Rin, Rout) ==
    ring_lumps(Array([m \in Lumps |->
                  lump_el(nuc, temp, a1, a2, mat_pot_xs, N, eta_lm(m, Rfuel, Rin, Rout))]),
               b1, b2)

(***************************************************************************)
(* The Yamamoto-Tabuchi polar quadratures: YamamotoTabuchi<N> for N = 2, 4 *)
(* and 6, the tabulated decimals as exact rationals.                       *)
(***************************************************************************)
\* A literal of six decimals, 0.dddddd or 1.000000, from its digits.
Dec6(digits) == Norm(digits, 1000000)

QuadratureOrders == {2, 4, 6}

\* YamamotoTabuchi<N>::abscissae_ (the sines of the polar angles).
abscissae_(N) ==
    IF N = 2 THEN <<Dec6(798184)>>
    ELSE IF N = 4 THEN <<Dec6(363900), Dec6(899900)>>
    ELSE <<Dec6(166648), Dec6(537707), Dec6(932954)>>

\* The weights with the last of N = 6 rounded up in its sixth decimal.
weights_rounded_up(N) ==
    IF N = 2 THEN <<Dec6(1000000)>>
    ELSE IF N = 4 THEN <<Dec6(212854), Dec6(787146)>>
    ELSE <<Dec6(46233), Dec6(283619), Dec6(670149)>>

\* YamamotoTabuchi<N>::weights_.
weights_(N) ==
    IF N = 2 THEN <<Dec6(1000000)>>
    ELSE IF N = 4 THEN <<Dec6(212854), Dec6(787146)>>
    ELSE <<Dec6(46233), Dec6(283619), Dec6(670148)>>

\* The object YamamotoTabuchi<N>().
YamamotoTabuchi(N) == [N |-> N, abscissae |-> abscissae_(N), weights |-> weights_(N)]

(***************************************************************************)
(* The MOCDriver (include/moc/moc_driver.hpp).  Lengths are in hundredths  *)
(* of a centimetre.  For one azimuthal angle with nx tracks starting on    *)
(* the -y boundary and ny on the -x boundary, a point of the boundary is   *)
(* <<side, pos>>: pos counts half track spacings along the side, so that   *)
(* the tracks meet the sides y_min, y_max at pos = 1, 3, .., 2 nx - 1 and  *)
(* the sides x_min, x_max at pos = 1, 3, .., 2 ny - 1.                     *)
(***************************************************************************)
Reflective == "Reflective"

Vacuum == "Vacuum"

BadAngles == "n_angles must be a multiple of 4"

\* The zero-flux sentinel a track end on a vacuum boundary is linked to.
ZeroFlux == [track |-> <<>>, end |-> "none"]

CeilDiv(a, b) == (a + b - 1) \div b

\* sin and cos, in thousandths, of the requested angle k = 0 .. n/4 - 1 of
\* the first quadrant, (PI / n_angles) * (k + 1/2).
SinCos(n_angles, k) ==
    IF n_angles = 4 THEN <<383, 924>>
    ELSE IF k = 0 THEN <<195, 981>>
    ELSE <<556, 831>>

\* MOCDriver::generate_azimuthal_quadrature: one AngleInfo (nx, ny) for each
\* requested angle of the first quadrant; it stands for the angle and for
\* its mirror PI - phi.
generate_azimuthal_quadrature(n_angles, d, geom) ==
    [a \in 1..(n_angles \div 4) |->
        [nx |-> CeilDiv(geom.Lx * SinCos(n_angles, a - 1)[1], 1000 * d),
         ny |-> CeilDiv(geom.Ly * SinCos(n_angles, a - 1)[2], 1000 * d)]]

\* The track k = 0 .. nx + ny - 1 of angle a going up and to the right: the
\* first nx enter on y_min, the others on x_min.
RightTrack(a, k, nx, ny) ==
    [a |-> a, dir |-> "right", k |-> k,
     entry |-> IF k < nx THEN <<"y_min", 2 * k + 1>> ELSE <<"x_min", 2 * (k - nx) + 1>>,
     exit  |-> IF k < nx
               THEN IF 2 * k + 1 + 2 * ny < 2 * nx
                    THEN <<"y_max", 2 * k + 1 + 2 * ny>>
                    ELSE <<"x_max", 2 * nx - (2 * k + 1)>>
               ELSE IF 2 * (k - nx) + 1 + 2 * nx < 2 * ny
                    THEN <<"x_max", 2 * (k - nx) + 1 + 2 * nx>>
                    ELSE <<"y_max", 2 * ny - (2 * (k - nx) + 1)>>]

\* The mirror image of a boundary point in the axis x = Lx / 2.
MirrorPoint(pt, nx) ==
    IF pt[1] = "y_min" \/ pt[1] = "y_max" THEN <<pt[1], 2 * nx - pt[2]>>
    ELSE <<IF pt[1] = "x_min" THEN "x_max" ELSE "x_min", pt[2]>>

\* The track of the mirror angle PI - phi: the mirror image of RightTrack.
LeftTrack(a, k, nx, ny) ==
    [a |-> a, dir |-> "left", k |-> k,
     entry |-> MirrorPoint(RightTrack(a, k, nx, ny).entry, nx),
     exit  |-> MirrorPoint(RightTrack(a, k, nx, ny).exit, nx)]

TrackKey(t) == <<t.a, t.dir, t.k>>

\* MOCDriver::generate_tracks: the tracks of every angle, not yet linked.
generate_tracks(angle_info) ==
    UNION {{RightTrack(a, k, angle_info[a].nx, angle_info[a].ny) :
               k \in 0..(angle_info[a].nx + angle_info[a].ny - 1)}
           \cup {LeftTrack(a, k, angle_info[a].nx, angle_info[a].ny) :
               k \in 0..(angle_info[a].nx + angle_info[a].ny - 1)} :
              a \in DOMAIN angle_info}

\* The boundary condition of a side.
BcOf(side, bcs) ==
    IF side = "x_min" THEN bcs[1] ELSE IF side = "x_max" THEN bcs[2]
    ELSE IF side = "y_min" THEN bcs[3] ELSE bcs[4]

\* The link with the sense of the linked end lost.
EndLink_always_entry(t, pt, tracks, bcs) ==
    IF BcOf(pt[1], bcs) = Vacuum THEN ZeroFlux
    ELSE LET o == CHOOSE u \in tracks :
                     /\ u.a = t.a /\ TrackKey(u) # TrackKey(t)
                     /\ (u.entry = pt \/ u.exit = pt)
         IN  [track |-> TrackKey(o), end |-> "entry"]

\* The link of the end of track t at the boundary point pt: the sentinel on
\* a vacuum side; on a reflective side the end of the other track of the
\* same pair of angles that lies at pt.
EndLink(t, pt, tracks, bcs) ==
    IF BcOf(pt[1], bcs) = Vacuum THEN ZeroFlux
    ELSE LET o == CHOOSE u \in tracks :
                     /\ u.a = t.a /\ TrackKey(u) # TrackKey(t)
                     /\ (u.entry = pt \/ u.exit = pt)
         IN  [track |-> TrackKey(o), end |-> IF o.entry = pt THEN "entry" ELSE "exit"]

\* MOCDriver::set_track_ends_bcs: every track by its key, with the links of
\* its two ends.
set_track_ends_bcs(tracks, bcs) ==
    [key \in {TrackKey(t) : t \in tracks} |->
        LET t == CHOOSE u \in tracks : TrackKey(u) = key
        IN  [a |-> t.a, dir |-> t.dir, k |-> t.k, entry |-> t.entry, exit |-> t.exit,
             entry_link |-> EndLink(t, t.entry, tracks, bcs),
             exit_link  |-> EndLink(t, t.exit, tracks, bcs)]]

\* The number of angles accepted when only evenness is asked for.
angles_accepted_even(n_angles) == n_angles % 2 = 0

\* The check of draw_tracks on the number of azimuthal angles.
angles_accepted(n_angles) == n_angles % 4 = 0

\* MOCDriver::drawn().
drawn == angle_info_ # <<>>

\* MOCDriver::MOCDriver(geometry, polar_quad, xmin, xmax, ymin, ymax) but
\* for the polar quadrature: nothing is drawn.
MOCDriver(geom, bcs) ==
    /\ geometry_ = geom
    /\ x_min_bc_ = bcs[1]
    /\ x_max_bc_ = bcs[2]
    /\ y_min_bc_ = bcs[3]
    /\ y_max_bc_ = bcs[4]
    /\ angle_info_ = <<>>
    /\ tracks_ = <<>>

\* The cell of main(): 1.27 x 1.27 cm, reflective on every side.
MainGeometry == [Lx |-> 127, Ly |-> 127]

AllReflective == <<Reflective, Reflective, Reflective, Reflective>>

(***************************************************************************)
(* The library as a state machine.  h5_ is the open file, nuclide_handles_ *)
(* the table of handles.  A caller makes one call at a time (call, ret)    *)
(* and drops the result before the next.  reads (in a handle) counts the   *)
(* times the nuclide's datasets were read since the last unload; touched   *)
(* is the set of nuclides interp_xs has served since then.  polar_quad_ is  *)
(* the quadrature of the MOCDriver built next to the library.              *)
(***************************************************************************)
UnknownName == "Zz999"

NotFound == "Could not find nuclde by name"

RinRout == "Rin must be < Rout."

RoutRfuel == "Rout must be < Rfuel."

NoArgs ==
    [temp |-> Zero, bg_xs_1 |-> Zero, bg_xs_2 |-> Zero, a1 |-> Zero, a2 |-> Zero,
     b1 |-> Zero, b2 |-> Zero, mat_pot_xs |-> Zero, N |-> Zero,
     Rfuel |-> Zero, Rin |-> Zero, Rout |-> Zero]

NoCall == [op |-> "none", name |-> "", args |-> NoArgs]

NoRet == [status |-> "none", error |-> "", xs |-> <<>>]

Returned(xs) == [status |-> "ok", error |-> "", xs |-> xs]

\* An exception swallowed: the call returns, with nothing.
Thrown_swallowed(mssg) == [status |-> "ok", error |-> "", xs |-> <<>>]

Thrown(mssg) == [status |-> "error", error |-> mssg, xs |-> <<>>]

\* The process is ended by the read.
Crashed == [status |-> "crashed", error |-> "", xs |-> <<>>]

\* What a call can come to once interp_1d or interp_2d has read outside a
\* table: the process is ended, or a CrossSection is made of whatever was
\* at the address read.
OutOfRangeOutcomes ==
    {Crashed} \cup
    {Returned(<<CrossSection6(v, v, [g \in Groups |-> v], v, v, v)>>) :
        v \in {ZeroVec, [g \in Groups |-> One], [g \in Groups |-> NaN]}}

\* What interp_xs can come to on the loaded handle nuc: the CrossSection
\* interpolated, when every index read is in the tables.
interp_xs_outcomes(nuc, temp, dil) ==
    IF reads_in_bounds(nuc, get_temp_interp_params(temp, nuc), get_dil_interp_params(dil, nuc))
    THEN {Returned(<<interp_xs_value(nuc, temp, dil)>>)}
    ELSE OutOfRangeOutcomes

\* The request bounds: temperatures (5k)^2 K for k up to MaxTempStep,
\* dilutions 0..MaxDil barns.
MaxTempStep == 7

MaxDil == 8

TempInputs == {Rat((5 * k) * (5 * k)) : k \in 1..MaxTempStep} \cup {Rat(500)}

DilInputs == {Rat(k) : k \in 0..MaxDil} \cup {Rat(50), Rat(InfDil)}

TwoTermTemps == {Rat(100), Rat(225), Rat(1225)}

BgInputs == {Rat(1), Rat(2), Rat(5), Rat(8)}

BPairs == {<<Half, Half>>, <<Rat(2), Rat(-1)>>, <<One, Zero>>, <<Zero, Zero>>}

RingBPairs == {<<Half, Half>>, <<Rat(2), Rat(-1)>>}

RingCase(Rfuel, Rin, Rout, a1, a2, mat_pot_xs, N) ==
    [Rfuel |-> Rfuel, Rin |-> Rin, Rout |-> Rout, a1 |-> a1, a2 |-> a2,
     mat_pot_xs |-> mat_pot_xs, N |-> N]

\* The rings asked for.  With a1 = a2: the whole pin, an inner disc and an
\* outer annulus, each in two mixtures.  With a1 # a2: the whole pin and an
\* inner disc.  And three sets of radii the function refuses.
RingCases ==
    {RingCase(g[1], g[2], g[3], m[1], m[1], m[2], m[3]) :
        g \in {<<Norm(11, 18), Zero, Norm(11, 18)>>,
               <<Norm(11, 12), Zero, Norm(11, 20)>>,
               <<Norm(5, 6), Half, Norm(5, 6)>>},
        m \in {<<Rat(2), Rat(4), Rat(1)>>, <<Rat(3), Rat(6), Rat(2)>>}}
    \cup {RingCase(Norm(11, 18), Zero, Norm(11, 18), Rat(2), Rat(3), Rat(7), Rat(1)),
          RingCase(Norm(11, 12), Zero, Norm(11, 20), Rat(2), Rat(3), Rat(3), Rat(1))}
    \cup {RingCase(One, Norm(3, 5), Norm(3, 5), Rat(2), Rat(3), Rat(4), Rat(1)),
          RingCase(One, Norm(4, 5), Norm(3, 5), Rat(2), Rat(3), Rat(4), Rat(1)),
          RingCase(One, Norm(3, 5), Rat(2), Rat(2), Rat(3), Rat(4), Rat(1))}

\* NDLibrary::NDLibrary(fname): the file is opened and a handle is made for
\* each nuclide of it.
Construct(fname) ==
    /\ h5_ = fname
    /\ nuclide_handles_ = [n \in DOMAIN H5Groups(fname) |->
                              NewHandle(H5Groups(fname)[n])]
    /\ pc = "idle"
    /\ call = NoCall
    /\ ret = NoRet
    /\ touched = {}

\* main(): the driver is built with YamamotoTabuchi<6>().
Init ==
    /\ Construct(MainFile)
    /\ polar_quad_ = YamamotoTabuchi(6)
    /\ MOCDriver(MainGeometry, AllReflective)

Known(name) == name \in DOMAIN nuclide_handles_

NameInputs == DOMAIN nuclide_handles_ \cup {UnknownName}

\* The handles after interp_xs has served name: loaded if it was not.
AfterLoad(name) ==
    [nuclide_handles_ EXCEPT
        ![name] = IF loaded(@) THEN @ ELSE load_xs_from_hdf5(@, H5Groups(h5_)[name])]

\* NDLibrary::get_nuclide(name).
get_nuclide(name) ==
    /\ pc = "idle"
    /\ pc' = "returned"
    /\ call' = [op |-> "get_nuclide", name |-> name, args |-> NoArgs]
    /\ ret' = IF Known(name) THEN Returned(<<>>) ELSE Thrown(NotFound)
    /\ UNCHANGED <<h5_, nuclide_handles_, polar_quad_, touched, moc_vars>>

\* NDLibrary::interp_xs(name, temp, dil).
interp_xs(name, temp, dil) ==
    /\ pc = "idle"
    /\ pc' = "returned"
    /\ call' = [op |-> "interp_xs", name |-> name,
                args |-> [NoArgs EXCEPT !.temp = temp, !.bg_xs_1 = dil]]
    /\ IF Known(name)
       THEN /\ nuclide_handles_' = AfterLoad(name)
            /\ touched' = touched \cup {name}
            /\ ret' \in interp_xs_outcomes(nuclide_handles_'[name], temp, dil)
       ELSE /\ ret' = Thrown(NotFound)
            /\ UNCHANGED <<nuclide_handles_, touched>>
    /\ UNCHANGED <<h5_, polar_quad_, moc_vars>>

\* NDLibrary::two_term_xs(name, temp, b1, b2, bg_xs_1, bg_xs_2).
two_term_xs(name, temp, b1, b2, bg_xs_1, bg_xs_2) ==
    /\ pc = "idle"
    /\ pc' = "returned"
    /\ call' = [op |-> "two_term_xs", name |-> name,
                args |-> [NoArgs EXCEPT !.temp = temp, !.b1 = b1, !.b2 = b2,
                                        !.bg_xs_1 = bg_xs_1, !.bg_xs_2 = bg_xs_2]]
    /\ IF Known(name)
       THEN /\ nuclide_handles_' = AfterLoad(name)
            /\ touched' = touched \cup {name}
            /\ ret' = Returned(<<two_term_xs_value(nuclide_handles_'[name], temp,
                                                   b1, b2, bg_xs_1, bg_xs_2)>>)
       ELSE /\ ret' = Thrown(NotFound)
            /\ UNCHANGED <<nuclide_handles_, touched>>
    /\ UNCHANGED <<h5_, polar_quad_, moc_vars>>

\* The checks with Rout = Rfuel refused as well.
radii_check_strict(Rfuel, Rin, Rout) ==
    IF RGe(Rin, Rout) THEN RinRout
    ELSE IF RGe(Rout, Rfuel) THEN RoutRfuel
    ELSE ""

\* The checks ring_two_term_xs opens with, in the code's order: the message
\* of the exception thrown, "" when the radii pass.
radii_check(Rfuel, Rin, Rout) ==
    IF RGe(Rin, Rout) THEN RinRout
    ELSE IF RGt(Rout, Rfuel) THEN RoutRfuel
    ELSE ""

\* NDLibrary::ring_two_term_xs(name, temp, a1, a2, b1, b2, mat_pot_xs, N,
\* Rfuel, Rin, Rout).
ring_two_term_xs(name, temp, a1, a2, b1, b2, mat_pot_xs, N, Rfuel, Rin, Rout) ==
    /\ pc = "idle"
    /\ pc' = "returned"
    /\ call' = [op |-> "ring_two_term_xs", name |-> name,
                args |-> [NoArgs EXCEPT !.temp = temp, !.a1 = a1, !.a2 = a2,
                                        !.b1 = b1, !.b2 = b2,
                                        !.mat_pot_xs = mat_pot_xs, !.N = N,
                                        !.Rfuel = Rfuel, !.Rin = Rin, !.Rout = Rout]]
    /\ IF radii_check(Rfuel, Rin, Rout) # ""
       THEN /\ ret' = Thrown(radii_check(Rfuel, Rin, Rout))
            /\ UNCHANGED <<nuclide_handles_, touched>>
       ELSE IF ~Known(name)
       THEN /\ ret' = Thrown(NotFound)
            /\ UNCHANGED <<nuclide_handles_, touched>>
       ELSE /\ nuclide_handles_' = AfterLoad(name)
            /\ touched' = touched \cup {name}
            /\ ret' = Returned(<<ring_two_term_xs_value(nuclide_handles_'[name], temp,
                                    a1, a2, b1, b2, mat_pot_xs, N, Rfuel, Rin, Rout)>>)
    /\ UNCHANGED <<h5_, polar_quad_, moc_vars>>

\* NDLibrary::unload().
unload ==
    /\ pc = "idle"
    /\ pc' = "returned"
    /\ call' = [op |-> "unload", name |-> "", args |-> NoArgs]
    /\ nuclide_handles_' = [n \in DOMAIN nuclide_handles_ |-> unload_handle(nuclide_handles_[n])]
    /\ touched' = {}
    /\ ret' = Returned(<<>>)
    /\ UNCHANGED <<h5_, polar_quad_, moc_vars>>

\* The caller takes the result (or the exception) and is ready to call again.
Release ==
    /\ pc = "returned"
    /\ pc' = "idle"
    /\ call' = NoCall
    /\ ret' = NoRet
    /\ UNCHANGED <<h5_, nuclide_handles_, polar_quad_, touched, moc_vars>>

Next ==
    \/ \E name \in NameInputs : get_nuclide(name)
    \/ \E name \in NameInputs, temp \in TempInputs, dil \in DilInputs :
          interp_xs(name, temp, dil)
    \/ \E name \in NameInputs, temp \in TwoTermTemps, b \in BPairs,
          bg_xs_1 \in BgInputs, bg_xs_2 \in BgInputs :
          two_term_xs(name, temp, b[1], b[2], bg_xs_1, bg_xs_2)
    \/ \E name \in NameInputs, temp \in TwoTermTemps, b \in RingBPairs, c \in RingCases :
          ring_two_term_xs(name, temp, c.a1, c.a2, b[1], b[2], c.mat_pot_xs, c.N,
                           c.Rfuel, c.Rin, c.Rout)
    \/ unload
    \/ Release

Spec == Init /\ [][Next]_vars

\* The library of scenario 4: the same calls on the scenario file.
InitScenario ==
    /\ Construct(ScenarioFile)
    /\ polar_quad_ = YamamotoTabuchi(6)
    /\ MOCDriver(MainGeometry, AllReflective)

SpecScenario == InitScenario /\ [][Next]_vars

\* The driver built with any of the quadratures provided.
InitQuadrature ==
    /\ Construct(MainFile)
    /\ \E N \in QuadratureOrders : polar_quad_ = YamamotoTabuchi(N)
    /\ MOCDriver(MainGeometry, AllReflective)

SpecQuadrature == InitQuadrature /\ [][Next]_vars

\* MOCDriver::draw_tracks(n_angles, d).  A driver is drawn once, as main()
\* does; a call that is refused may come at any time.
draw_tracks(n_angles, d) ==
    /\ pc = "idle"
    /\ ~drawn \/ ~angles_accepted(n_angles)
    /\ pc' = "returned"
    /\ call' = [op |-> "draw_tracks", name |-> "", args |-> [n_angles |-> n_angles, d |-> d]]
    /\ IF ~angles_accepted(n_angles)
       THEN /\ ret' = Thrown(BadAngles)
            /\ UNCHANGED <<angle_info_, tracks_>>
       ELSE /\ angle_info_' = generate_azimuthal_quadrature(n_angles, d, geometry_)
            /\ tracks_' = set_track_ends_bcs(generate_tracks(angle_info_'),
                                             <<x_min_bc_, x_max_bc_, y_min_bc_, y_max_bc_>>)
            /\ ret' = Returned(<<>>)
    /\ UNCHANGED <<h5_, nuclide_handles_, polar_quad_, touched,
                   geometry_, x_min_bc_, x_max_bc_, y_min_bc_, y_max_bc_>>

AnglesInputs == {2, 4, 6, 7, 8}

SpacingInputs == {25, 50}

GeometryInputs == {MainGeometry, [Lx |-> 127, Ly |-> 254], [Lx |-> 381, Ly |-> 127]}

BoundaryConditions == {Reflective, Vacuum}

\* A driver on any of the cells, with any boundary conditions.
InitMOC ==
    /\ Construct(MainFile)
    /\ polar_quad_ = YamamotoTabuchi(6)
    /\ \E geom \in GeometryInputs,
          bcs \in BoundaryConditions \X BoundaryConditions \X BoundaryConditions \X BoundaryConditions :
          MOCDriver(geom, bcs)

NextMOC ==
    \/ \E n_angles \in AnglesInputs, d \in SpacingInputs : draw_tracks(n_angles, d)
    \/ Release

SpecMOC == InitMOC /\ [][NextMOC]_vars

\* The library of a file whose nuclides have tables of one entry, asked for
\* cross sections by interp_xs.
InitSingle ==
    /\ Construct(SingleFile)
    /\ polar_quad_ = YamamotoTabuchi(6)
    /\ MOCDriver(MainGeometry, AllReflective)

NextSingle ==
    \/ \E name \in NameInputs : get_nuclide(name)
    \/ \E name \in NameInputs, temp \in TempInputs, dil \in DilInputs :
          interp_xs(name, temp, dil)
    \/ unload
    \/ Release

SpecSingle == InitSingle /\ [][NextSingle]_vars

\* The library of a file whose nuclides have data that do not depend on the
\* dilution: one tabulated at the infinite dilution only, one at two
\* dilutions with the same values.
InitFlat ==
    /\ Construct(FlatFile)
    /\ polar_quad_ = YamamotoTabuchi(6)
    /\ MOCDriver(MainGeometry, AllReflective)

SpecFlat == InitFlat /\ [][Next]_vars

(***************************************************************************)
(* Properties.  A call that has returned is seen in the state with         *)
(* pc = "returned": call holds its arguments, ret its outcome.             *)
(***************************************************************************)
Ok(op) == pc = "returned" /\ call.op = op /\ ret.status = "ok"

Threw(op) == pc = "returned" /\ call.op = op /\ ret.status = "error"

\* The CrossSection a successful call has returned.
result == ret.xs[1]

\* The handle of the nuclide the call was made for.
subject == nuclide_handles_[call.name]

XsOps == {"interp_xs", "two_term_xs", "ring_two_term_xs"}

\* The index (from 0) of the value v in a table.
IndexOf(arr, v) == CHOOSE k \in 0..(Size(arr) - 1) : At(arr, k) = v

\* The bilinear interpolation between the four corners v_td.
Interp4(v00, v01, v10, v11, f_T, f_d) ==
    RAdd(RMul(RSub(One, f_T), Lerp(f_d, v00, v01)), RMul(f_T, Lerp(f_d, v10, v11)))

\* Scenario 4 for the nuclide name: interp_xs(name, 500, 50) returns, for the
\* absorption and for the off-diagonal scattering, the bilinear interpolation
\* on the brackets (300, 600) K and (10, 100) barns.
Scenario4(name) ==
    (Ok("interp_xs") /\ call.name = name
        /\ call.args.temp = Rat(500) /\ call.args.bg_xs_1 = Rat(50))
    => LET nuc  == subject
           t_lo == IndexOf(nuc.temperatures, Rat(300))
           t_hi == IndexOf(nuc.temperatures, Rat(600))
           d_lo == IndexOf(nuc.dilutions, Rat(10))
           d_hi == IndexOf(nuc.dilutions, Rat(100))
           f_T  == TempFactor(Rat(500), Rat(300), Rat(600))
           f_d  == DilFactor(Rat(50), Rat(10), Rat(100))
           a(t, d) == At(At(nuc.absorption, t), d)
           s(t, d) == At(At(nuc.scatter, t), d)
       IN  \A g \in Groups :
              /\ result.Ea[g] = Interp4(a(t_lo, d_lo)[g], a(t_lo, d_hi)[g],
                                        a(t_hi, d_lo)[g], a(t_hi, d_hi)[g], f_T, f_d)
              /\ \A go \in Groups \ {g} :
                    result.Es[g][go] = Interp4(s(t_lo, d_lo)[g][go], s(t_lo, d_hi)[g][go],
                                               s(t_hi, d_lo)[g][go], s(t_hi, d_hi)[g][go],
                                               f_T, f_d)

\* C1: for the nuclide tabulated at (300, 600, 900) K whose dilutions are
\* listed as (1e10, 1000, 100, 10, 1), interp_xs(name, 500, 50) returns in
\* every group the bilinear interpolation with the temperature bracket
\* (300, 600) and the dilution bracket (10, 100), the two dilutions that
\* enclose 50.
C1_Scenario4Decreasing == Scenario4("Xdec")

\* The same request on the same data listed in increasing order.
Scenario4Increasing == Scenario4("Xinc")

\* C2: two_term_xs(name, T, 1/2, 1/2, sigma, sigma) returns a CrossSection
\* equal in every component (Et, Ea, Es, Es1, Ef, vEf, chi) and every group to
\* the one interp_xs(name, T, sigma) returns.
C2_TwoTermReducesToInterp ==
    (Ok("two_term_xs") /\ call.args.b1 = Half /\ call.args.b2 = Half
        /\ call.args.bg_xs_1 = call.args.bg_xs_2)
    => result = interp_xs_value(subject, call.args.temp, call.args.bg_xs_1)

C2_Witness ==
    /\ Ok("two_term_xs") /\ call.name = "U235"
    /\ call.args.b1 = Half /\ call.args.b2 = Half
    /\ call.args.temp = Rat(225)
    /\ call.args.bg_xs_1 = Rat(2) /\ call.args.bg_xs_2 = Rat(2)
    /\ RSum(result.chi, ngroups) = One
    /\ RGt(result.vEf[1], Zero)

\* The index (from 0) of the lowest and of the highest value of a table.
Lowest(arr) == CHOOSE k \in 0..(Size(arr) - 1) : \A j \in 0..(Size(arr) - 1) : RLe(At(arr, k), At(arr, j))

Highest(arr) == CHOOSE k \in 0..(Size(arr) - 1) : \A j \in 0..(Size(arr) - 1) : RGe(At(arr, k), At(arr, j))

\* C3: the factors of get_temp_interp_params and get_dil_interp_params lie
\* in [0, 1], and interp_xs does not extrapolate: a temperature at or below
\* the lowest tabulated gives the values tabulated at the lowest, one at or
\* above the highest the values tabulated at the highest, and likewise a
\* dilution at or beyond the ends of the dilution table.
C3_NoExtrapolation ==
    Ok("interp_xs") =>
        LET nuc  == subject
            temp == call.args.temp
            dil  == call.args.bg_xs_1
            T    == nuc.temperatures
            D    == nuc.dilutions
            tp   == get_temp_interp_params(temp, nuc)
            dp   == get_dil_interp_params(dil, nuc)
        IN  /\ RGe(tp.f, Zero) /\ RLe(tp.f, One)
            /\ RGe(dp.f, Zero) /\ RLe(dp.f, One)
            /\ tp.i \in 0..(Size(T) - 2) /\ dp.i \in 0..(Size(D) - 2)
            /\ RLe(temp, At(T, Lowest(T))) =>
                   result = interp_xs_at(nuc, Lowest(T), Zero, dp.i, dp.f)
            /\ RGe(temp, At(T, Highest(T))) =>
                   result = interp_xs_at(nuc, Highest(T), Zero, dp.i, dp.f)
            /\ RLe(dil, At(D, Lowest(D))) =>
                   result = interp_xs_at(nuc, tp.i, tp.f, Lowest(D), Zero)
            /\ RGe(dil, At(D, Highest(D))) =>
                   result = interp_xs_at(nuc, tp.i, tp.f, Highest(D), Zero)

\* A request beyond both ends of increasing tables, served from the last
\* temperature and the first dilution.
EndsOfIncreasingTables ==
    /\ Ok("interp_xs") /\ call.name = "U235"
    /\ call.args.temp = Rat(1225) /\ call.args.bg_xs_1 = Zero
    /\ result.Ea = At(At(subject.absorption, 2), 0)
    /\ result.Ef = At(At(subject.fission, 2), 0)

\* C4: in the CrossSection of interp_xs, Et(g) is the interpolated Ea(g)
\* plus the row sum of the interpolated Es(g, .) minus the interpolated
\* Es1(g, g); the in-group scatter is the interpolated Es(g, g) minus
\* Es1(g, g) and the other entries of Es are the interpolated ones; hence
\* Et(g) is the returned Ea(g) plus the row sum of the returned Es(g, .).
C4_TotalReconstructed ==
    Ok("interp_xs") =>
        LET nuc == subject
            tp  == get_temp_interp_params(call.args.temp, nuc)
            dp  == get_dil_interp_params(call.args.bg_xs_1, nuc)
            Ea  == interp_1d(nuc.absorption, tp.i, tp.f, dp.i, dp.f)
            Es  == interp_2d(nuc.scatter, tp.i, tp.f, dp.i, dp.f)
            Es1 == interp_2d(nuc.p1_scatter, tp.i, tp.f, dp.i, dp.f)
        IN  \A g \in Groups :
               /\ result.Ea[g] = Ea[g]
               /\ result.Et[g] = RSub(RAdd(Ea[g], RSum(Es[g], ngroups)), Es1[g][g])
               /\ result.Es[g][g] = RSub(Es[g][g], Es1[g][g])
               /\ \A go \in Groups \ {g} : result.Es[g][go] = Es[g][go]
               /\ result.Et[g] = RAdd(result.Ea[g], RSum(result.Es[g], ngroups))

C4_Witness ==
    /\ Ok("interp_xs") /\ call.name = "H1"
    /\ call.args.temp = Rat(225) /\ call.args.bg_xs_1 = Rat(4)
    /\ \A g \in Groups :
          LET tp == get_temp_interp_params(call.args.temp, subject)
              dp == get_dil_interp_params(call.args.bg_xs_1, subject)
              Es == interp_2d(subject.scatter, tp.i, tp.f, dp.i, dp.f)
          IN  /\ RGt(tp.f, Zero) /\ RGt(dp.f, Zero)
              /\ RLt(result.Es[g][g], Es[g][g])
              /\ RLt(result.Et[g], RAdd(result.Ea[g], RSum(Es[g], ngroups)))

\* The state part of C5: a nuclide's arrays are loaded exactly when it has
\* been served since construction or the last unload, they were read from the
\* file once, and unload() has left every nuclide unloaded.
C5_LoadedIffServed ==
    /\ \A n \in DOMAIN nuclide_handles_ :
          /\ loaded(nuclide_handles_[n]) <=> n \in touched
          /\ nuclide_handles_[n].reads = IF n \in touched THEN 1 ELSE 0
    /\ Ok("unload") => \A n \in DOMAIN nuclide_handles_ : ~loaded(nuclide_handles_[n])

\* The step part of C5: a handle changes only by being loaded by a
\* successful call for that very nuclide, or unloaded by unload(); a call on
\* a loaded nuclide reads nothing and leaves its handle as it was.
C5_OnlySubject ==
    \A n \in DOMAIN nuclide_handles_ :
        /\ nuclide_handles_'[n] # nuclide_handles_[n] =>
              \/ /\ call'.op \in XsOps /\ call'.name = n /\ ret'.status = "ok"
                 /\ ~loaded(nuclide_handles_[n]) /\ loaded(nuclide_handles_'[n])
                 /\ nuclide_handles_'[n].reads = 1
              \/ /\ call'.op = "unload"
                 /\ loaded(nuclide_handles_[n]) /\ ~loaded(nuclide_handles_'[n])
        /\ (pc = "idle" /\ pc' = "returned" /\ call'.op \in XsOps /\ call'.name = n
               /\ ret'.status = "ok")
              => /\ loaded(nuclide_handles_'[n])
                 /\ n \in touched'

\* C5: after any sequence of construction, interp_xs / two_term_xs /
\* ring_two_term_xs and unload() calls, a nuclide's arrays are loaded if and
\* only if it has been the subject of a successful interp_xs (directly or
\* through the two others) since construction or the last unload();
\* construction loads nothing, a call for one nuclide never loads or unloads
\* another, a call on a loaded nuclide does not read the file again, and
\* unload() leaves every nuclide unloaded.
C5_LazyLoading == [](C5_LoadedIffServed) /\ [][C5_OnlySubject]_vars

C5_Witness ==
    /\ Ok("ring_two_term_xs") /\ call.name = "H1"
    /\ touched = {"H1"}
    /\ loaded(nuclide_handles_["H1"]) /\ nuclide_handles_["H1"].reads = 1
    /\ ~loaded(nuclide_handles_["U235"])

\* C6: get_nuclide, interp_xs, two_term_xs and ring_two_term_xs (with valid
\* radii) called with a name that is not in the library raise the error to
\* the caller, return no CrossSection and leave the library as it was: the
\* same handles, each loaded or unloaded as before.
C6_UnknownNuclide ==
    [][(/\ pc = "idle" /\ pc' = "returned"
        /\ call'.op \in XsOps \cup {"get_nuclide"}
        /\ call'.name \notin DOMAIN nuclide_handles_
        /\ call'.op = "ring_two_term_xs" =>
              /\ RLt(call'.args.Rin, call'.args.Rout)
              /\ RLe(call'.args.Rout, call'.args.Rfuel))
       => /\ ret'.status = "error" /\ ret'.error = NotFound /\ ret'.xs = <<>>
          /\ DOMAIN nuclide_handles_' = DOMAIN nuclide_handles_
          /\ nuclide_handles_' = nuclide_handles_
          /\ touched' = touched]_vars

C6_Witness ==
    /\ Threw("two_term_xs") /\ call.name = UnknownName
    /\ ret.error = NotFound /\ ret.xs = <<>>
    /\ loaded(nuclide_handles_["U235"]) /\ ~loaded(nuclide_handles_["H1"])

RoutEqualsRfuelAccepted ==
    /\ Ok("ring_two_term_xs") /\ call.name = "U235"
    /\ call.args.Rout = call.args.Rfuel

\* C8: for a fissile nuclide whose tabulated chi sums to 1 at every
\* tabulated temperature, the chi of the CrossSection returned by interp_xs,
\* two_term_xs and ring_two_term_xs sums to 1 over the groups.
C8_ChiSumsToOne ==
    (/\ pc = "returned" /\ call.op \in XsOps /\ ret.status = "ok"
     /\ subject.fissile
     /\ \A t \in DOMAIN subject.chi : RSum(subject.chi[t], ngroups) = One)
    => RSum(result.chi, ngroups) = One

\* The chi of interp_xs and of ring_two_term_xs alone.
ChiSumsToOneButTwoTerm == call.op # "two_term_xs" => C8_ChiSumsToOne

\* two_term_xs with every weight finite and the weighted production not
\* positive: the chi returned is all zero.
TwoTermChiZero ==
    /\ Ok("two_term_xs") /\ subject.fissile
    /\ \A g \in Groups : IsFinite(result.vEf[g]) /\ IsFinite(result.Ea[g])
    /\ result.chi = ZeroVec

\* C9: in ring_two_term_xs the background of lump m for a_k is
\* (mat_pot_xs - N * pot_xs + a_k / l_m) / N, and 1e10 exactly when l_m = 0;
\* the chi returned is that of the first cross-section set of lump 1.
C9_RingBackgrounds ==
    Ok("ring_two_term_xs") =>
        LET a      == call.args
            pot_xs == subject.potential_xs
            macro  == RMul(a.N, pot_xs)
            lm(m)  == eta_lm(m, a.Rfuel, a.Rin, a.Rout).lm
            bg(m, a_k) == IF lm(m) = Zero THEN Rat(InfDil)
                          ELSE RDiv(RAdd(RSub(a.mat_pot_xs, macro), RDiv(a_k, lm(m))), a.N)
        IN  /\ \A m \in Lumps : \A a_k \in {a.a1, a.a2} :
                  lump_bg_xs(lm(m), a_k, a.mat_pot_xs, macro, a.N) = bg(m, a_k)
            /\ result.chi = interp_xs_value(subject, a.temp, bg(1, a.a1)).chi

\* A lump of negative mean chord length in a ring accepted.
NegativeChord ==
    /\ Ok("ring_two_term_xs")
    /\ \E m \in Lumps :
          RLt(eta_lm(m, call.args.Rfuel, call.args.Rin, call.args.Rout).lm, Zero)

\* C10: every Yamamoto-Tabuchi quadrature provided (N = 2, 4, 6) has
\* abscissae and weights of the same length N/2, every abscissa strictly
\* between 0 and 1, every weight positive, and weights that sum to exactly 1
\* at the six decimals tabulated.
C10_YamamotoTabuchi ==
    LET n == polar_quad_.N \div 2
    IN  /\ polar_quad_.N \in QuadratureOrders
        /\ Len(polar_quad_.abscissae) = n
        /\ Len(polar_quad_.weights) = n
        /\ \A p \in 1..n :
              /\ RGt(polar_quad_.abscissae[p], Zero)
              /\ RLt(polar_quad_.abscissae[p], One)
              /\ RGt(polar_quad_.weights[p], Zero)
        /\ RSum(polar_quad_.weights, n) = One

C10_Witness ==
    /\ polar_quad_.N = 6
    /\ Len(polar_quad_.weights) = 3
    /\ RAdd(polar_quad_.weights[1], RAdd(polar_quad_.weights[2], polar_quad_.weights[3])) = One
    /\ pc = "returned"

\* The ends of the tracks drawn: <<key of the track, "entry" or "exit">>.
TrackEnds == (DOMAIN tracks_) \X {"entry", "exit"}

\* The boundary point of a track end, and the side it lies on.
PointOf(e) == IF e[2] = "entry" THEN tracks_[e[1]].entry ELSE tracks_[e[1]].exit

\* What a track end is linked to.
LinkOf(e) == IF e[2] = "entry" THEN tracks_[e[1]].entry_link ELSE tracks_[e[1]].exit_link

LinkedEnd(e) == <<LinkOf(e).track, LinkOf(e).end>>

OtherEnd(e) == <<e[1], IF e[2] = "entry" THEN "exit" ELSE "entry">>

\* Entering a track at e, the end at which the next track is entered.
Follow(e) == LinkedEnd(OtherEnd(e))

RECURSIVE ComesBack(_, _, _)
ComesBack(start, e, n) ==
    IF n = 0 THEN FALSE
    ELSE Follow(e) = start \/ ComesBack(start, Follow(e), n - 1)

AllSidesReflective ==
    x_min_bc_ = Reflective /\ x_max_bc_ = Reflective /\ y_min_bc_ = Reflective /\ y_max_bc_ = Reflective

SideBc(side) == BcOf(side, <<x_min_bc_, x_max_bc_, y_min_bc_, y_max_bc_>>)

\* C11: once the tracks are drawn, an end on a reflective side is linked to
\* the one other end, of the same pair of angles, at the same point, and an
\* end on a vacuum side is linked to the zero-flux sentinel; with four
\* reflective sides the links are symmetric, and following them from any
\* end comes back to it, so that the tracks form closed cycles.
C11_CyclicTracks ==
    drawn =>
        /\ \A e \in TrackEnds :
              IF SideBc(PointOf(e)[1]) = Vacuum THEN LinkOf(e) = ZeroFlux
              ELSE /\ LinkedEnd(e) \in TrackEnds \ {e}
                   /\ {o \in TrackEnds \ {e} :
                          tracks_[o[1]].a = tracks_[e[1]].a /\ PointOf(o) = PointOf(e)}
                      = {LinkedEnd(e)}
        /\ AllSidesReflective =>
              \A e \in TrackEnds :
                 /\ LinkedEnd(LinkedEnd(e)) = e
                 /\ ComesBack(e, e, Cardinality(TrackEnds))

\* Tracks are drawn with four reflective sides, for more than one angle.
C11_Witness ==
    /\ Ok("draw_tracks") /\ drawn /\ AllSidesReflective
    /\ Len(angle_info_) = 2
    /\ geometry_.Lx # geometry_.Ly
    /\ \E key \in DOMAIN tracks_ : tracks_[key].exit[1] = "y_max"
    /\ \E key \in DOMAIN tracks_ : tracks_[key].exit[1] = "x_max"

\* Tracks are drawn with a vacuum side: its ends have the sentinel.
VacuumEndsDrawn ==
    /\ Ok("draw_tracks") /\ drawn /\ x_max_bc_ = Vacuum
    /\ \E e \in TrackEnds : PointOf(e)[1] = "x_max" /\ LinkOf(e) = ZeroFlux

\* A step that is a call of draw_tracks returning.
DrawTracksStep == pc = "idle" /\ pc' = "returned" /\ call'.op = "draw_tracks"

\* C12: a driver is undrawn when built, and becomes drawn only by a call of
\* draw_tracks that succeeds, and stays so; a call of draw_tracks with a
\* number of angles that is no multiple of 4 raises an error and changes
\* neither the angles nor the tracks, and one with a multiple of 4 succeeds
\* and leaves the driver drawn, with its tracks.
C12_Step ==
    /\ drawn => drawn'
    /\ (~drawn /\ drawn') => (DrawTracksStep /\ ret'.status = "ok")
    /\ DrawTracksStep =>
          IF call'.args.n_angles % 4 # 0
          THEN /\ ret'.status = "error"
               /\ angle_info_' = angle_info_ /\ tracks_' = tracks_
               /\ ~drawn => (angle_info_' = <<>> /\ tracks_' = <<>>)
          ELSE /\ ret'.status = "ok"
               /\ drawn' /\ DOMAIN tracks_' # {}

\* C12: the driver starts undrawn, without tracks, and every step keeps to
\* C12_Step: drawn() turns true by a successful draw_tracks only, a refused
\* draw_tracks changes nothing.
C12_DrawnAfterDrawTracks == (~drawn /\ tracks_ = <<>>) /\ [][C12_Step]_vars

\* A call with 6 angles has been refused on a driver not yet drawn.
C12_Witness ==
    /\ Threw("draw_tracks") /\ call.args.n_angles = 6
    /\ ~drawn /\ tracks_ = <<>>

\* A refused call on a drawn driver leaves it drawn.
RefusedWhenDrawn == Threw("draw_tracks") /\ drawn

\* The tables of the subject interpolated at (temp, dil): the absorption,
\* and the scattering matrix with the p1 term taken once out of its diagonal.
AbsorptionAt(temp, dil) ==
    LET tp == get_temp_interp_params(temp, subject)
        dp == get_dil_interp_params(dil, subject)
    IN  interp_1d(subject.absorption, tp.i, tp.f, dp.i, dp.f)

P1CorrectedAt(temp, dil) ==
    LET tp == get_temp_interp_params(temp, subject)
        dp == get_dil_interp_params(dil, subject)
        S  == interp_2d(subject.scatter, tp.i, tp.f, dp.i, dp.f)
        P  == interp_2d(subject.p1_scatter, tp.i, tp.f, dp.i, dp.f)
    IN  [g \in Groups |-> [go \in Groups |->
            IF go = g THEN RSub(S[g][g], P[g][g]) ELSE S[g][go]]]

\* The result is made of numbers: no denominator was zero.
FiniteResult == \A g \in Groups : IsFinite(result.Ea[g])

\* The two backgrounds of lump m of the ring of the call.
RingBg(m, a) ==
    lump_bg_xs(eta_lm(m, call.args.Rfuel, call.args.Rin, call.args.Rout).lm, a,
               call.args.mat_pot_xs, RMul(call.args.N, subject.potential_xs), call.args.N)

RingEta(m) == eta_lm(m, call.args.Rfuel, call.args.Rin, call.args.Rout).eta

\* C13: the total of a CrossSection returned by two_term_xs or by
\* ring_two_term_xs is its Ea plus the row sum of its Es, and that Es is the
\* combination, with the weights of the call, of the scattering matrices
\* interpolated from the tables with the p1 term taken out once.
C13_P1RemovedOnce ==
    /\ (Ok("two_term_xs") \/ Ok("ring_two_term_xs")) /\ FiniteResult =>
          \A g \in Groups :
             result.Et[g] = RAdd(result.Ea[g], RSum(result.Es[g], ngroups))
    /\ Ok("two_term_xs") /\ FiniteResult =>
          LET a   == call.args
              Ea1 == AbsorptionAt(a.temp, a.bg_xs_1)
              Ea2 == AbsorptionAt(a.temp, a.bg_xs_2)
              Es1 == P1CorrectedAt(a.temp, a.bg_xs_1)
              Es2 == P1CorrectedAt(a.temp, a.bg_xs_2)
              fl1(g) == nr_flux(subject.potential_xs, a.bg_xs_1, Ea1[g])
              fl2(g) == nr_flux(subject.potential_xs, a.bg_xs_2, Ea2[g])
              den(g) == RAdd(RMul(a.b1, fl1(g)), RMul(a.b2, fl2(g)))
          IN  \A g, go \in Groups :
                 result.Es[g][go] =
                    RAdd(RMul(RDiv(RMul(a.b1, fl1(g)), den(g)), Es1[g][go]),
                         RMul(RDiv(RMul(a.b2, fl2(g)), den(g)), Es2[g][go]))
    /\ Ok("ring_two_term_xs") /\ FiniteResult =>
          LET a   == call.args
              Ea1(m) == AbsorptionAt(a.temp, RingBg(m, a.a1))
              Ea2(m) == AbsorptionAt(a.temp, RingBg(m, a.a2))
              Es1(m) == P1CorrectedAt(a.temp, RingBg(m, a.a1))
              Es2(m) == P1CorrectedAt(a.temp, RingBg(m, a.a2))
              fl1(m, g) == nr_flux(subject.potential_xs, RingBg(m, a.a1), Ea1(m)[g])
              fl2(m, g) == nr_flux(subject.potential_xs, RingBg(m, a.a2), Ea2(m)[g])
              den(g) == RSum([m \in Lumps |->
                            RMul(RingEta(m), RAdd(RMul(a.b1, fl1(m, g)), RMul(a.b2, fl2(m, g))))], 4)
          IN  \A g, go \in Groups :
                 result.Es[g][go] =
                    RDiv(RSum([m \in Lumps |->
                            RMul(RingEta(m), RAdd(RMul(a.b1, Es1(m)[g][go]),
                                                  RMul(a.b2, Es2(m)[g][go])))], 4),
                         den(g))

\* A ring of U235, whose p1 term is not zero, with a negative b2.
C13_Witness ==
    /\ Ok("ring_two_term_xs") /\ call.name = "U235" /\ FiniteResult
    /\ RLt(call.args.b2, Zero)
    /\ call.args.a1 # call.args.a2
    /\ \E g \in Groups : P1CorrectedAt(call.args.temp, RingBg(1, call.args.a1))[g][g]
                            # interp_2d(subject.scatter, 0, Zero, 0, Zero)[g][g]
    /\ result.Et[1] = RAdd(result.Ea[1], RSum(result.Es[1], ngroups))

\* two_term_xs with two different backgrounds has returned numbers.
TwoTermMixed ==
    /\ Ok("two_term_xs") /\ call.name = "U235" /\ FiniteResult
    /\ call.args.bg_xs_1 # call.args.bg_xs_2 /\ RLt(call.args.b2, Zero)

\* The indices of the grid points equal to x.
GridIndices(x, grid) == {j \in 0..(Size(grid) - 1) : At(grid, j) = x}

\* The CrossSection components tabulated at temperature j and dilution k.
TabulatedAt(nuc, j, k) ==
    [Ea  |-> At(At(nuc.absorption, j), k),
     Es  |-> [g \in Groups |-> [go \in Groups |->
                 IF go = g
                 THEN RSub(At(At(nuc.scatter, j), k)[g][g], At(At(nuc.p1_scatter, j), k)[g][g])
                 ELSE At(At(nuc.scatter, j), k)[g][go]]],
     Ef  |-> IF nuc.fissile THEN At(At(nuc.fission, j), k) ELSE ZeroVec,
     vEf |-> IF nuc.fissile
             THEN [g \in Groups |-> RMul(At(nuc.nu, j)[g], At(At(nuc.fission, j), k)[g])]
             ELSE ZeroVec,
     chi |-> IF nuc.fissile THEN At(nuc.chi, j) ELSE ZeroVec]

\* C14: interp_xs called at a tabulated temperature T_j and a tabulated
\* dilution d_k returns the values tabulated at (T_j, d_k), with nu and chi
\* of T_j, and nothing of any other grid point.
C14_GridPointsExact ==
    Ok("interp_xs") =>
        \A j \in GridIndices(call.args.temp, subject.temperatures),
           k \in GridIndices(call.args.bg_xs_1, subject.dilutions) :
           LET tab == TabulatedAt(subject, j, k)
           IN  /\ \A g \in Groups :
                     /\ result.Ea[g] = tab.Ea[g]
                     /\ result.Ef[g] = tab.Ef[g]
                     /\ result.vEf[g] = tab.vEf[g]
                     /\ result.chi[g] = tab.chi[g]
                     /\ \A go \in Groups : result.Es[g][go] = tab.Es[g][go]
                     /\ result.Et[g] = RAdd(tab.Ea[g], RSum(tab.Es[g], ngroups))

\* The call is at the grid point (j, k) of the tables of the subject.
AtGridPoint(j, k) ==
    /\ Ok("interp_xs")
    /\ j \in GridIndices(call.args.temp, subject.temperatures)
    /\ k \in GridIndices(call.args.bg_xs_1, subject.dilutions)

\* U235 at its interior grid point (400, 3), where its neighbours differ.
C14_Witness ==
    /\ AtGridPoint(1, 1) /\ call.name = "U235"
    /\ At(At(subject.absorption, 0), 1) # At(At(subject.absorption, 1), 1)
    /\ At(At(subject.absorption, 1), 2) # At(At(subject.absorption, 1), 1)
    /\ At(subject.chi, 1) # At(subject.chi, 2)

\* The first and the last grid points of U235 are called too.
FirstGridPoint == AtGridPoint(0, 0) /\ call.name = "U235"

LastGridPoint == AtGridPoint(2, 2) /\ call.name = "U235"

LastTempFirstDil == AtGridPoint(2, 0) /\ call.name = "U235"

\* The two narrow-resonance fluxes of group g in the two_term_xs call.
TwoTermFlux1(g) ==
    nr_flux(subject.potential_xs, call.args.bg_xs_1,
            AbsorptionAt(call.args.temp, call.args.bg_xs_1)[g])

TwoTermFlux2(g) ==
    nr_flux(subject.potential_xs, call.args.bg_xs_2,
            AbsorptionAt(call.args.temp, call.args.bg_xs_2)[g])

\* C15: in two_term_xs the weights f1 and f2 of a group whose denominator
\* b1 * flux_1 + b2 * flux_2 is not zero add up to 1, whatever the signs of
\* b1 and b2; and with equal backgrounds and b1 + b2 # 0 the Ea, Ef, vEf and
\* Es returned are those of interp_xs at that temperature and background.
C15_WeightsSumToOne ==
    Ok("two_term_xs") =>
        LET a == call.args
        IN  /\ \A g \in Groups :
                  RAdd(RMul(a.b1, TwoTermFlux1(g)), RMul(a.b2, TwoTermFlux2(g))) # Zero =>
                      RAdd(weight(a.b1, TwoTermFlux1(g), a.b1, TwoTermFlux1(g), a.b2, TwoTermFlux2(g)),
                           weight(a.b2, TwoTermFlux2(g), a.b1, TwoTermFlux1(g), a.b2, TwoTermFlux2(g)))
                        = One
            /\ (a.bg_xs_1 = a.bg_xs_2 /\ RAdd(a.b1, a.b2) # Zero) =>
                  LET xs == interp_xs_value(subject, a.temp, a.bg_xs_1)
                  IN  /\ result.Ea = xs.Ea
                      /\ result.Ef = xs.Ef
                      /\ result.vEf = xs.vEf
                      /\ result.Es = xs.Es

\* Equal backgrounds with b1 = 2 and b2 = -1, for the fissile nuclide.
C15_Witness ==
    /\ Ok("two_term_xs") /\ call.name = "U235"
    /\ call.args.b1 = Rat(2) /\ call.args.b2 = RNeg(One)
    /\ call.args.bg_xs_1 = Rat(5) /\ call.args.bg_xs_2 = Rat(5)
    /\ call.args.temp = Rat(225)
    /\ RGt(result.vEf[1], Zero)
    /\ result.Ea = interp_xs_value(subject, call.args.temp, Rat(5)).Ea

\* Different backgrounds with a negative b2 and denominators not zero.
NegativeWeightMixed ==
    /\ Ok("two_term_xs") /\ call.name = "U235"
    /\ call.args.b2 = RNeg(One) /\ call.args.bg_xs_1 # call.args.bg_xs_2
    /\ \A g \in Groups :
          RAdd(RMul(call.args.b1, TwoTermFlux1(g)), RMul(call.args.b2, TwoTermFlux2(g))) # Zero

\* C16: the indices it, it + 1, id, id + 1 that interp_1d and interp_2d read
\* for a call of interp_xs on a known nuclide are elements of its tables,
\* tables of one entry included.
C16_IndicesInBounds ==
    (pc = "returned" /\ call.op = "interp_xs" /\ Known(call.name)) =>
        /\ IndicesRead(get_temp_interp_params(call.args.temp, subject))
              \subseteq 0..(Size(subject.temperatures) - 1)
        /\ IndicesRead(get_dil_interp_params(call.args.bg_xs_1, subject))
              \subseteq 0..(Size(subject.dilutions) - 1)

\* With at least two entries in each table every index read is in bounds.
TwoEntriesInBounds ==
    (pc = "returned" /\ call.op = "interp_xs" /\ Known(call.name)
        /\ Size(subject.temperatures) >= 2 /\ Size(subject.dilutions) >= 2)
    => reads_in_bounds(subject, get_temp_interp_params(call.args.temp, subject),
                       get_dil_interp_params(call.args.bg_xs_1, subject))

\* A table of one entry asked at or below its entry is read at index 0 only.
OneEntryAtOrBelow ==
    /\ Ok("interp_xs") /\ call.name = "T1D1"
    /\ call.args.temp = Rat(225) /\ call.args.bg_xs_1 = Rat(5)
    /\ result.Ea = At(At(subject.absorption, 0), 0)

\* The p of lump m in eta_lm: min(Rout / Rfuel, 1) for m = 1, 2 and
\* Rin / Rfuel for m = 3, 4.
LumpP(m) ==
    IF m = 3 \/ m = 4 THEN RDiv(call.args.Rin, call.args.Rfuel)
    ELSE RMin(RDiv(call.args.Rout, call.args.Rfuel), One)

\* C17: for each lump of a ring that ring_two_term_xs has served, eta_lm
\* takes T2 = asin(p) / p when the p of that lump is positive and T2 = 1
\* only when that p is 0.
C17_T2ByOwnP ==
    Ok("ring_two_term_xs") =>
        \A m \in Lumps :
           eta_lm_T2(LumpP(m), call.args.Rin)
              = IF RGt(LumpP(m), Zero) THEN RDiv(Asin(LumpP(m)), LumpP(m)) ELSE One

\* For a ring with Rin > 0 every lump has p > 0 and T2 = asin(p) / p.
AnnulusT2 ==
    /\ Ok("ring_two_term_xs") /\ RGt(call.args.Rin, Zero)
    /\ \A m \in Lumps : eta_lm_T2(LumpP(m), call.args.Rin) = RDiv(Asin(LumpP(m)), LumpP(m))

\* For a ring with Rin = 0 the lumps 1 and 2 get T2 = 1 though p > 0.
DiscT2IsOne ==
    /\ Ok("ring_two_term_xs") /\ call.args.Rin = Zero
    /\ RGt(LumpP(1), Zero) /\ eta_lm_T2(LumpP(1), call.args.Rin) = One
    /\ RDiv(Asin(LumpP(1)), LumpP(1)) # One

\* The tables of a nuclide hold the same values at every dilution.
DilutionIndependent(nuc) ==
    \A t \in DOMAIN nuc.absorption, d \in DOMAIN nuc.dilutions :
       /\ nuc.absorption[t][d] = nuc.absorption[t][1]
       /\ nuc.scatter[t][d] = nuc.scatter[t][1]
       /\ nuc.p1_scatter[t][d] = nuc.p1_scatter[t][1]
       /\ nuc.fission[t][d] = nuc.fission[t][1]

\* C18: for a nuclide whose data do not depend on the dilution, the Ea, Ef,
\* vEf and Es that ring_two_term_xs returns with non-zero denominators are
\* those of interp_xs at the same temperature.
C18_RingIsAverage ==
    (Ok("ring_two_term_xs") /\ FiniteResult /\ DilutionIndependent(subject)) =>
        LET xs == interp_xs_value(subject, call.args.temp, Rat(InfDil))
        IN  /\ result.Ea = xs.Ea
            /\ result.Ef = xs.Ef
            /\ result.vEf = xs.vEf
            /\ result.Es = xs.Es

\* interp_xs of such a nuclide gives the same values at every dilution.
FlatInterp ==
    Ok("interp_xs") =>
        result = interp_xs_value(subject, call.args.temp, Rat(InfDil))

\* The sum over the lumps of eta_m (b1 flux_1 + b2 flux_2) for group g.
RingDenominator(g) ==
    RSum([m \in Lumps |->
            RMul(RingEta(m),
                 RAdd(RMul(call.args.b1,
                           nr_flux(subject.potential_xs, RingBg(m, call.args.a1),
                                   AbsorptionAt(call.args.temp, RingBg(m, call.args.a1))[g])),
                      RMul(call.args.b2,
                           nr_flux(subject.potential_xs, RingBg(m, call.args.a2),
                                   AbsorptionAt(call.args.temp, RingBg(m, call.args.a2))[g]))))], 4)

\* What the code returns for such a nuclide: the value of interp_xs times
\* (b1 + b2) * (sum of eta_m) over the flux-weighted denominator.
RingScaled ==
    (Ok("ring_two_term_xs") /\ FiniteResult) =>
        LET xs == interp_xs_value(subject, call.args.temp, Rat(InfDil))
        IN  \A g \in Groups :
               result.Ea[g] =
                  RDiv(RMul(xs.Ea[g],
                            RMul(RAdd(call.args.b1, call.args.b2),
                                 RSum([m \in Lumps |-> RingEta(m)], 4))),
                       RingDenominator(g))

\* The handle of a nuclide as a library just opened on the file loads it.
FreshlyLoaded(name) ==
    load_xs_from_hdf5(NewHandle(H5Groups(h5_)[name]), H5Groups(h5_)[name])

\* C19: a call of interp_xs on a known nuclide succeeds, and what it returns
\* is the one outcome that its arguments and the tables of the file
\* determine, whatever was called, loaded or unloaded before.
C19_DeterminedByFile ==
    (pc = "returned" /\ call.op = "interp_xs" /\ Known(call.name)) =>
        /\ ret.status = "ok"
        /\ interp_xs_outcomes(FreshlyLoaded(call.name), call.args.temp, call.args.bg_xs_1)
              = {ret}

\* The same for the calls whose reads are in bounds.
DeterminedWhenInBounds ==
    (pc = "returned" /\ call.op = "interp_xs" /\ Known(call.name)
        /\ reads_in_bounds(subject, get_temp_interp_params(call.args.temp, subject),
                           get_dil_interp_params(call.args.bg_xs_1, subject)))
    => /\ ret.status = "ok"
       /\ ret = Returned(<<interp_xs_value(FreshlyLoaded(call.name), call.args.temp,
                                           call.args.bg_xs_1)>>)

\* The file stays the one the library was opened on.
FileKept == [][h5_' = h5_]_vars

\* interp_xs has returned for a nuclide while another one is loaded too.
ServedAmongLoaded ==
    /\ Ok("interp_xs") /\ Known(call.name)
    /\ \E n \in DOMAIN nuclide_handles_ : n # call.name /\ loaded(nuclide_handles_[n])

====
